---- MODULE Spec2Model ----
(***************************************************************************)
(* QAmqpCpp: the Qt wrapper QRabbitmqMgr (src/src/QMqManager) driving the  *)
(* embedded AMQP client engine (connection, channel, deferred results,     *)
(* consumer and message reassembly).                                       *)
(*                                                                         *)
(* The wrapper and DeferredConsumer are translated from their sources.     *)
(* Connection, Channel, the Deferred base class and the message            *)
(* reassembler are not among the sources: they are modelled from the       *)
(* design document (sections 4.2 - 4.5, 7) and marked so in the map.       *)
(*                                                                         *)
(* The whole program state is gathered in one record, the "world" w, and   *)
(* every method is an operator from world to world, because callbacks run  *)
(* synchronously and re-entrantly inside the call that triggers them.      *)
(* An action applies one entry point to the current world.                 *)
(***************************************************************************)
EXTENDS Integers, Sequences, FiniteSets, TLC

\* ------------------------------------------------------------------ bounds
MaxDeferreds == 5       \* operations issued on the channel in one run
MaxFrames == 7          \* frames the server sends in one run
MaxBody == 2            \* largest declared body size / body frame length
MaxTags == 2            \* consumer tags the server may name
MaxCalls == 2           \* wrapper methods the application calls in one run
MaxConsumers == 1       \* consume calls an application makes in one run
MaxLate == 1            \* registrations made after the consume call returned
MaxDeliveryFrames == 6  \* frames the server sends once the channel is set up
MaxStream == 3          \* frames in the byte stream the transport delivers

VARIABLES
    m_role,             \* QRabbitmqMgr::m_role, a set of role flags ({} = MqNone)
    m_mqConnErrIndex,   \* QRabbitmqMgr::m_mqConnErrIndex
    m_errMessag,        \* QRabbitmqMgr::m_errMessag (the prefix of the message)
    m_channel,          \* m_channel != nullptr
    m_connection,       \* m_connection != nullptr
    m_heartbeatTimer,   \* "null" | "active" | "stopped"
    m_mqInfo,           \* exchangeName, exchangeType, queueName (the parts tested)
    sigMqConnectError,  \* number of emissions of the signal
    sigRecvedDataReady, \* the bodies emitted, in order
    conn,               \* the Connection state machine
    chan,               \* the Channel: state, pending queue, registry, reassembler
    defs,               \* every Deferred created, by identity (its index)
    sink,               \* the byte sink: frames sent, in order
    trace,              \* callback invocations, in order
    nFed,               \* frames fed so far
    nCalls,             \* wrapper methods called so far
    ret,                \* what the last wrapper method returned
    crashed,            \* a null m_channel was dereferenced
    tcp,                \* the inbound byte stream and how much of it was read
    thr                 \* where each thread is, and who holds m_channelMutex

vars == << m_role, m_mqConnErrIndex, m_errMessag, m_channel, m_connection,
           m_heartbeatTimer, m_mqInfo, sigMqConnectError, sigRecvedDataReady,
           conn, chan, defs, sink, trace, nFed, nCalls, ret, crashed, tcp, thr >>

World ==
    [ m_role |-> m_role, m_mqConnErrIndex |-> m_mqConnErrIndex,
      m_errMessag |-> m_errMessag, m_channel |-> m_channel,
      m_connection |-> m_connection, m_heartbeatTimer |-> m_heartbeatTimer,
      m_mqInfo |-> m_mqInfo, sigMqConnectError |-> sigMqConnectError,
      sigRecvedDataReady |-> sigRecvedDataReady, conn |-> conn, chan |-> chan,
      defs |-> defs, sink |-> sink, trace |-> trace, nFed |-> nFed,
      nCalls |-> nCalls, ret |-> ret, crashed |-> crashed, tcp |-> tcp, thr |-> thr ]

Commit(w) ==
    /\ m_role' = w.m_role
    /\ m_mqConnErrIndex' = w.m_mqConnErrIndex
    /\ m_errMessag' = w.m_errMessag
    /\ m_channel' = w.m_channel
    /\ m_connection' = w.m_connection
    /\ m_heartbeatTimer' = w.m_heartbeatTimer
    /\ m_mqInfo' = w.m_mqInfo
    /\ sigMqConnectError' = w.sigMqConnectError
    /\ sigRecvedDataReady' = w.sigRecvedDataReady
    /\ conn' = w.conn
    /\ chan' = w.chan
    /\ defs' = w.defs
    /\ sink' = w.sink
    /\ trace' = w.trace
    /\ nFed' = w.nFed
    /\ nCalls' = w.nCalls
    /\ ret' = w.ret
    /\ crashed' = w.crashed
    /\ tcp' = w.tcp
    /\ thr' = w.thr

\* ------------------------------------------------------------- vocabulary
MqPublisher == "MqPublisher"
MqConsumer == "MqConsumer"
MqNone == {}

\* MqExTypeMap: the exchange type names the wrapper accepts.
MqExTypeMap == {"direct", "fanout", "topic"}

RECURSIVE SumSeq(_)
SumSeq(s) == IF s = << >> THEN 0 ELSE Head(s) + SumSeq(Tail(s))

\* A frame, inbound or outbound: its kind t and one argument a (consumer
\* tag, declared size or body length; 0 when the kind has none).
Frame(t, a) == [t |-> t, a |-> a]

NoCb == "none"

\* A Deferred: kind of request, state, failure reason, consumer tag, and the
\* zero-or-one registered handler per event kind.
NewDeferredRec(kind, failed) ==
    [ kind |-> kind,
      st |-> IF failed THEN "Failed" ELSE "Pending",
      reason |-> IF failed THEN "ChannelClosed" ELSE "none",
      tag |-> 0,
      _errorCallback |-> NoCb, _successCallback |-> NoCb,
      _consumeCallback |-> NoCb, _cancelCallback |-> NoCb,
      _messageCallback |-> NoCb, _startCallback |-> NoCb,
      _sizeCallback |-> NoCb, _headerCallback |-> NoCb,
      _dataCallback |-> NoCb, _deliveredCallback |-> NoCb ]

IdleReassembler ==
    [rstate |-> "Idle", rcons |-> 0, rtag |-> 0, rdtag |-> 0, rsize |-> 0, racc |-> << >>]

NoChannel ==
    [ state |-> "None", pending |-> << >>, consumers |-> {},
      readyCb |-> NoCb, errorCb |-> NoCb, nDeliver |-> 0, rx |-> IdleReassembler ]

\* The length of a frame header on the wire.
HdrLen == 2

NoConnection == [state |-> "None", await |-> "none", outq |-> << >>, expected |-> HdrLen]

\* No inbound bytes; spin: the event thread is in a parse loop that does not
\* end.
NoTcp == [stream |-> << >>, pos |-> 0, spin |-> FALSE]

\* Both threads outside the wrapper, m_channelMutex free.
NoThreads == [pub |-> "idle", evt |-> "idle", mutex |-> "free"]

\* A callback invocation as recorded in the trace.
Ev(cb, ev, d, a) == [cb |-> cb, ev |-> ev, d |-> d, a |-> a]

Emit(w, e) == [w EXCEPT !.trace = Append(@, e)]


\* ----------------------------------------------------------------- core
\* Connection.usable(): true once the handshake is complete and not yet
\* closing (design 4.2).
ConnUsable(w) == w.conn.state = "Open"

\* Channel.usable(): false once closing/closed or on a channel-level error
\* (design 3).
ChanUsable(w) == w.chan.state \in {"Opening", "Ready"}

\* The byte sink. Frames produced before the handshake is complete wait in
\* the connection's queue and reach the sink, in order, at connection.open-ok.
Send(w, f) ==
    IF w.conn.state \in {"Open", "Closing"} \/ f.t \in {"protocol-header", "connection.start-ok", "connection.tune-ok", "connection.open"}
    THEN [w EXCEPT !.sink = Append(@, f)]
    ELSE [w EXCEPT !.conn.outq = Append(@, f)]

\* The method frame of a request and the reply frame that answers it.
RequestFrame(kind) ==
    CASE kind = "declareExchange" -> "exchange.declare"
      [] kind = "declareQueue" -> "queue.declare"
      [] kind = "bindQueue" -> "queue.bind"
      [] kind = "setQos" -> "basic.qos"
      [] kind = "consume" -> "basic.consume"
      [] kind = "purgeQueue" -> "queue.purge"
      [] kind = "close" -> "channel.close"

ReplyFrame(kind) ==
    CASE kind = "declareExchange" -> "exchange.declare-ok"
      [] kind = "declareQueue" -> "queue.declare-ok"
      [] kind = "bindQueue" -> "queue.bind-ok"
      [] kind = "setQos" -> "basic.qos-ok"
      [] kind = "consume" -> "basic.consume-ok"
      [] kind = "purgeQueue" -> "queue.purge-ok"
      [] kind = "close" -> "channel.close-ok"
      [] OTHER -> "none"

RECURSIVE CallError(_, _, _, _)
RECURSIVE OnStatusChange(_, _)
RECURSIVE CloseMqChannel(_)
RECURSIVE Deferred_onError(_, _, _)

\* Channel request (declareExchange, declareQueue, bindQueue, setQos,
\* consume, purgeQueue): on a usable channel a pending Deferred is enqueued
\* and the method frame sent; otherwise the Deferred is born failed and
\* nothing is enqueued or sent (design 4.3, 7). The new Deferred's identity
\* is Len(defs) of the result.
Channel_request(w, kind) ==
    IF ChanUsable(w)
    THEN Send([w EXCEPT !.defs = Append(@, NewDeferredRec(kind, FALSE)),
                        !.chan.pending = Append(@, Len(w.defs) + 1)],
              Frame(RequestFrame(kind), 0))
    ELSE [w EXCEPT !.defs = Append(@, NewDeferredRec(kind, TRUE))]

\* Channel.close(): the channel stops being usable at once, its consumers
\* leave the registry, channel.close is sent and the Deferred of the close
\* waits for channel.close-ok behind the requests already pending.
Channel_close(w) ==
    IF ChanUsable(w)
    THEN Send([w EXCEPT !.defs = Append(@, NewDeferredRec("close", FALSE)),
                        !.chan.pending = Append(@, Len(w.defs) + 1),
                        !.chan.state = "Closing",
                        !.chan.consumers = {},
                        !.chan.rx = IdleReassembler],
              Frame("channel.close", 0))
    ELSE [w EXCEPT !.defs = Append(@, NewDeferredRec("close", TRUE))]

\* Channel.publish(): fire-and-forget, never queued (design 4.3).
Channel_publish(w) ==
    IF ChanUsable(w) THEN Send(w, Frame("basic.publish", 0)) ELSE w

\* Channel.ack(deliveryTag): no reply frame is awaited.
Channel_ack(w, deliveryTag) ==
    IF ChanUsable(w) THEN Send(w, Frame("basic.ack", deliveryTag)) ELSE w

\* ----------------------------------------------------- wrapper callbacks
ErrPrefix(cb) ==
    CASE cb = "CreatMqExchangeErrCb" -> "Create Exchange Failed"
      [] cb = "CreatMqQueueErrCb" -> "Create Queue Failed"
      [] cb = "BindQueueErrCb" -> "Bind Queue Failed"
      [] cb = "SetQosValueErrCb" -> "Set Qos Failed"
      [] cb = "ConsumeErrorCb" -> "Consume Data Failed"
      [] cb = "ChannelErrCb" -> "Channel Error"
      [] cb = "ChannelCloseErrCb" -> "Close Channel Failed"

\* The error callbacks that end in OnStatusChange(false).
StatusErrCbs ==
    {"CreatMqExchangeErrCb", "CreatMqQueueErrCb", "BindQueueErrCb",
     "SetQosValueErrCb", "ConsumeErrorCb", "ChannelErrCb"}

\* ChannelCloseErrCb only records the message.
ChannelCloseErrCb(w) == [w EXCEPT !.m_errMessag = ErrPrefix("ChannelCloseErrCb")]

\* CreatMqExchangeErrCb .. ConsumeErrorCb, ChannelErrCb: record the message,
\* then OnStatusChange(false).
WrapperErrCb(w, cb) == OnStatusChange([w EXCEPT !.m_errMessag = ErrPrefix(cb)], FALSE)

\* Invoke an error callback: a wrapper method, or an application handler
\* that has no effect on the engine ("app").
CallError(w, cb, d, msg) ==
    LET w1 == Emit(w, Ev(cb, "onError", d, msg)) IN
    IF cb = "ChannelCloseErrCb" THEN ChannelCloseErrCb(w1)
    ELSE IF cb \in StatusErrCbs THEN WrapperErrCb(w1, cb)
    ELSE w1

\* Deferred::onError: store the handler; a Deferred that already failed
\* invokes it at once with the stored reason (design 4.4, replay).
Deferred_onError(w, d, cb) ==
    LET w1 == [w EXCEPT !.defs[d]._errorCallback = cb] IN
    IF w.defs[d].st = "Failed" THEN CallError(w1, cb, d, w.defs[d].reason) ELSE w1

\* Deferred::onSuccess: store the handler; a Deferred that already succeeded
\* invokes it at once (design 4.4, replay).
Deferred_onSuccess(w, d, cb) ==
    LET w1 == [w EXCEPT !.defs[d]._successCallback = cb] IN
    IF w.defs[d].st = "Succeeded" THEN Emit(w1, Ev(cb, "onSuccess", d, 0)) ELSE w1

\* QRabbitmqMgr::CloseMqChannel: under m_channelMutex, close a usable channel
\* and register ChannelCloseErrCb on the Deferred of the close.
CloseMqChannel(w) ==
    IF w.m_channel /\ ChanUsable(w)
    THEN LET w1 == Channel_close(w) IN Deferred_onError(w1, Len(w1.defs), "ChannelCloseErrCb")
    ELSE w

\* OnStatusChange that leaves the role as it is.
OnStatusChange_KeepRole(w, isOk) ==
    IF isOk THEN [w EXCEPT !.m_mqConnErrIndex = 0]
    ELSE CloseMqChannel([w EXCEPT !.m_mqConnErrIndex = @ + 1, !.sigMqConnectError = @ + 1])

\* QRabbitmqMgr::OnStatusChange
OnStatusChange(w, isOk) ==
    IF isOk THEN [w EXCEPT !.m_mqConnErrIndex = 0]
    ELSE LET w1 == [w EXCEPT !.m_mqConnErrIndex = @ + 1,
                             !.sigMqConnectError = @ + 1]
             w2 == CloseMqChannel(w1)
         IN [w2 EXCEPT !.m_role = MqNone]


Return(w, v) == [w EXCEPT !.ret = v]

\* Dereferencing m_channel: a null pointer ends the program.
Crash(w) == [w EXCEPT !.crashed = TRUE]

\* QRabbitmqMgr::CreateMqExchange
CreateMqExchange(w, exchangeName, exchangeType) ==
    IF exchangeName = ""
    THEN Return([w EXCEPT !.m_errMessag = "ExchangeName is empty."], FALSE)
    ELSE IF exchangeType \notin MqExTypeMap
    THEN Return([w EXCEPT !.m_errMessag = "Create Exchange Failed, Unknow exType"], FALSE)
    ELSE IF ~w.m_channel THEN Crash(w)
    ELSE LET w1 == Channel_request(w, "declareExchange")
         IN Return(Deferred_onError(w1, Len(w1.defs), "CreatMqExchangeErrCb"), TRUE)

\* QRabbitmqMgr::CreateMqQueue
CreateMqQueue(w, queueName) ==
    IF ~w.m_channel THEN Crash(w)
    ELSE LET w1 == Channel_request(w, "declareQueue")
         IN Return(Deferred_onError(w1, Len(w1.defs), "CreatMqQueueErrCb"), TRUE)

\* BindQueue without the test for empty names.
BindQueue_NoCheck(w, queueName, exchangeName) ==
    IF ~w.m_channel THEN Crash(w)
    ELSE LET w1 == Channel_request(w, "bindQueue")
         IN Return(Deferred_onError(w1, Len(w1.defs), "BindQueueErrCb"), TRUE)

\* QRabbitmqMgr::BindQueue
BindQueue(w, queueName, exchangeName) ==
    IF exchangeName = "" \/ queueName = ""
    THEN Return([w EXCEPT !.m_errMessag = "ExchangeName or QueueName is empty."], FALSE)
    ELSE IF ~w.m_channel THEN Crash(w)
    ELSE LET w1 == Channel_request(w, "bindQueue")
         IN Return(Deferred_onError(w1, Len(w1.defs), "BindQueueErrCb"), TRUE)

\* BindQueueExchange with the binding requested before the declarations.
BindQueueExchange_BindFirst(w) ==
    LET w1 == BindQueue(w, w.m_mqInfo.queueName, w.m_mqInfo.exchangeName)
        w2 == IF w1.crashed THEN w1 ELSE CreateMqQueue(w1, w.m_mqInfo.queueName)
        w3 == IF w2.crashed THEN w2
              ELSE CreateMqExchange(w2, w.m_mqInfo.exchangeName, w.m_mqInfo.exchangeType)
    IN w3

\* BindQueueExchange that gives up at the first step that returns false.
BindQueueExchange_StopAtFailure(w) ==
    LET w1 == CreateMqExchange(w, w.m_mqInfo.exchangeName, w.m_mqInfo.exchangeType)
        w2 == IF w1.crashed \/ ~w1.ret THEN w1 ELSE CreateMqQueue(w1, w.m_mqInfo.queueName)
        w3 == IF w2.crashed \/ ~w2.ret THEN w2
              ELSE BindQueue(w2, w.m_mqInfo.queueName, w.m_mqInfo.exchangeName)
    IN w3

\* QRabbitmqMgr::BindQueueExchange: the three steps, each attempted whatever
\* the one before returned (a false return is only printed).
BindQueueExchange(w) ==
    LET w1 == CreateMqExchange(w, w.m_mqInfo.exchangeName, w.m_mqInfo.exchangeType)
        w2 == IF w1.crashed THEN w1 ELSE CreateMqQueue(w1, w.m_mqInfo.queueName)
        w3 == IF w2.crashed THEN w2
              ELSE BindQueue(w2, w.m_mqInfo.queueName, w.m_mqInfo.exchangeName)
    IN w3

\* QRabbitmqMgr::ChannelOkCb
ChannelOkCb(w) ==
    LET w1 == BindQueueExchange(w) IN
    IF w1.crashed THEN w1 ELSE OnStatusChange(w1, TRUE)

\* OnConsumeRecved without the ack: what a consumer started with automatic
\* acknowledgement would do.
OnConsumeRecved_AutoAck(w, body, deliveryTag) ==
    [w EXCEPT !.sigRecvedDataReady = Append(@, body)]

\* QRabbitmqMgr::OnConsumeRecved: hand the body to the application, then
\* acknowledge the delivery.
OnConsumeRecved(w, body, deliveryTag) ==
    Channel_ack([w EXCEPT !.sigRecvedDataReady = Append(@, body)], deliveryTag)


\* ------------------------------------------------------ Deferred results
\* Deferred::reportError: Pending -> Failed(reason), then the registered
\* error handler. Terminal states are sticky.
reportError(w, d, reason) ==
    IF w.defs[d].st # "Pending" THEN w
    ELSE LET w1 == Emit([w EXCEPT !.defs[d].st = "Failed", !.defs[d].reason = reason],
                        Ev(NoCb, "failed", d, reason))
             cb == w.defs[d]._errorCallback
         IN IF cb = NoCb THEN w1 ELSE CallError(w1, cb, d, reason)

\* Deferred::reportSuccess: Pending -> Succeeded, then the registered
\* success handler.
reportSuccess(w, d) ==
    IF w.defs[d].st # "Pending" THEN w
    ELSE LET w1 == Emit([w EXCEPT !.defs[d].st = "Succeeded"], Ev(NoCb, "succeeded", d, 0))
             cb == w.defs[d]._successCallback
         IN IF cb = NoCb THEN w1 ELSE Emit(w1, Ev(cb, "onSuccess", d, 0))

\* DeferredConsumer::reportSuccess(name): consumption has started under the
\* server-assigned tag; the consumer enters the channel's registry and the
\* consume handler receives the tag.
DeferredConsumer_reportSuccess(w, d, name) ==
    IF w.defs[d].st # "Pending" THEN w
    ELSE LET w1 == [w EXCEPT !.defs[d].tag = name,
                             !.chan.consumers = @ \cup {<<name, d>>}]
             w2 == IF w.defs[d]._consumeCallback = NoCb THEN w1
                   ELSE Emit(w1, Ev(w.defs[d]._consumeCallback, "onSuccess(tag)", d, name))
         IN reportSuccess(w2, d)

\* A cancellation that is reported through the error handler.
reportCancelled_ViaError(w, d, name) ==
    IF w.defs[d]._errorCallback # NoCb
    THEN CallError(w, w.defs[d]._errorCallback, d, "ConsumerCancelled")
    ELSE w

\* DeferredConsumer::reportCancelled(name)
reportCancelled(w, d, name) ==
    IF w.defs[d]._cancelCallback # NoCb
    THEN Emit(w, Ev(w.defs[d]._cancelCallback, "onCancelled", d, name))
    ELSE w

\* Invoke the aggregate message handler: the wrapper's OnConsumeRecved, or an
\* application handler.
CallMessage(w, cb, d, body, deliveryTag) ==
    LET w1 == Emit(w, Ev(cb, "onReceived", d, <<SumSeq(body), deliveryTag>>)) IN
    IF cb = "OnConsumeRecved" THEN OnConsumeRecved(w1, body, deliveryTag) ELSE w1

\* Invoke one of the granular hooks, if registered.
CallHook(w, cb, ev, d, a) == IF cb = NoCb THEN w ELSE Emit(w, Ev(cb, ev, d, a))

\* --------------------------------------------------------------- Channel
RECURSIVE FailPending(_, _, _)
FailPending(w, q, reason) ==
    IF q = << >> THEN w
    ELSE FailPending(reportError(w, Head(q), reason), Tail(q), reason)

\* The channel is closed by the server or lost with the connection: it is
\* marked unusable, every pending Deferred fails in the order issued, and
\* the channel's error handler runs (design 4.3).
Channel_reportError(w, reason) ==
    LET w1 == [w EXCEPT !.chan.state = "Closed", !.chan.consumers = {},
                        !.chan.rx = IdleReassembler]
        w2 == FailPending(w1, w.chan.pending, reason)
        w3 == [w2 EXCEPT !.chan.pending = << >>]
    IN IF w.chan.errorCb = NoCb THEN w3 ELSE CallError(w3, w.chan.errorCb, 0, reason)

\* A violation that closes the channel and leaves the connection open.
ProtocolViolation_ChannelOnly(w) ==
    IF w.chan.state \in {"Opening", "Ready", "Closing"}
    THEN Channel_reportError(w, "ProtocolViolation")
    ELSE w

\* An unexpected or malformed frame: the connection fails for good and every
\* live channel with it (design 4.1, 7).
ProtocolViolation(w) ==
    LET w1 == [w EXCEPT !.conn.state = "Failed", !.conn.outq = << >>] IN
    IF w.chan.state \in {"Opening", "Ready", "Closing"}
    THEN Channel_reportError(w1, "ProtocolViolation")
    ELSE w1

Remove(q, d) == SelectSeq(q, LAMBDA x: x # d)

\* A reply frame goes to the oldest pending Deferred, which is then popped
\* (design 4.3). A reply that is not the one the oldest Deferred awaits, or
\* one that finds nothing pending, is an unexpected frame.
Channel_reply(w, f) ==
    IF w.chan.pending = << >> THEN ProtocolViolation(w)
    ELSE LET d == Head(w.chan.pending)
             kind == w.defs[d].kind
         IN IF f.t = "operation-failed"
            THEN LET w1 == reportError(w, d, "OperationFailed")
                 IN [w1 EXCEPT !.chan.pending = Remove(@, d)]
            ELSE IF f.t # ReplyFrame(kind) THEN ProtocolViolation(w)
            ELSE LET w1 == IF kind = "consume"
                           THEN DeferredConsumer_reportSuccess(w, d, f.a)
                           ELSE reportSuccess(w, d)
                     w2 == [w1 EXCEPT !.chan.pending = Remove(@, d)]
                 IN IF kind = "close" THEN [w2 EXCEPT !.chan.state = "Closed"] ELSE w2

\* channel.close-ok completes the application's close: requests still pending
\* ahead of the close fail with ChannelClosed, in order, then the close
\* succeeds (design 5: closing deterministically fails all pending Deferreds).
RECURSIVE Channel_closeOk(_)
Channel_closeOk(w) ==
    IF w.chan.state # "Closing" \/ w.chan.pending = << >> THEN ProtocolViolation(w)
    ELSE LET d == Head(w.chan.pending) IN
         IF w.defs[d].kind = "close" THEN Channel_reply(w, Frame("channel.close-ok", 0))
         ELSE Channel_closeOk([reportError(w, d, "ChannelClosed") EXCEPT !.chan.pending = Remove(@, d)])

\* channel.open-ok: the channel is ready and its onReady handler runs.
Channel_openOk(w) ==
    IF w.chan.state # "Opening" THEN ProtocolViolation(w)
    ELSE LET w1 == Emit([w EXCEPT !.chan.state = "Ready"], Ev(w.chan.readyCb, "onReady", 0, 0))
         IN IF w.chan.readyCb = "ChannelOkCb" THEN ChannelOkCb(w1) ELSE w1

\* The consumer registered under a tag (0 when there is none).
ConsumerOf(w, tag) ==
    IF \E p \in w.chan.consumers : p[1] = tag
    THEN (CHOOSE p \in w.chan.consumers : p[1] = tag)[2]
    ELSE 0

\* A cancel that tells the consumer and leaves it in the registry.
Channel_cancel_KeepEntry(w, tag) ==
    LET d == ConsumerOf(w, tag) IN
    IF d = 0 THEN w ELSE reportCancelled(w, d, tag)

\* basic.cancel: the consumer leaves the registry and is told.
Channel_cancel(w, tag) ==
    LET d == ConsumerOf(w, tag) IN
    IF d = 0 THEN w
    ELSE reportCancelled([w EXCEPT !.chan.consumers = @ \ {<<tag, d>>}], d, tag)

\* The end of a message: onComplete, then the aggregate handler with the
\* assembled body; the reassembler is idle again.
Reassembler_complete(w) ==
    LET rx == w.chan.rx
        d == rx.rcons
        w0 == [w EXCEPT !.chan.rx = IdleReassembler]
    IN IF d = 0 THEN w0
       ELSE LET w1 == CallHook(w0, w.defs[d]._deliveredCallback, "onComplete", d, rx.rdtag)
            IN IF w.defs[d]._messageCallback = NoCb THEN w1
               ELSE CallMessage(w1, w.defs[d]._messageCallback, d, rx.racc, rx.rdtag)

\* A reassembler that lets a frame it does not expect pass.
Reassembler_frame_Tolerant(w, f) ==
    LET rx == w.chan.rx IN
    IF rx.rstate = "AwaitingBody" /\ f.t = "body"
    THEN LET w1 == [w EXCEPT !.chan.rx.racc = Append(@, f.a)]
         IN IF SumSeq(rx.racc) + f.a >= rx.rsize THEN Reassembler_complete(w1) ELSE w1
    ELSE IF rx.rstate = "Idle" /\ f.t = "basic.deliver"
    THEN [w EXCEPT !.chan.rx.rstate = "AwaitingHeader"]
    ELSE IF rx.rstate = "AwaitingHeader" /\ f.t = "header"
    THEN [w EXCEPT !.chan.rx.rstate = "AwaitingBody", !.chan.rx.rsize = f.a]
    ELSE w

\* DeferredConsumer::process(BasicDeliverFrame) and the reassembler of
\* design 4.5, driven by deliver, header and body frames.
Reassembler_frame(w, f) ==
    LET rx == w.chan.rx
        d == rx.rcons
    IN CASE rx.rstate = "Idle" /\ f.t = "basic.deliver" ->
              LET c == ConsumerOf(w, f.a)
                  tagNo == w.chan.nDeliver + 1
                  w1 == [w EXCEPT !.chan.nDeliver = tagNo,
                                  !.chan.rx = [rstate |-> "AwaitingHeader", rcons |-> c,
                                               rtag |-> f.a, rdtag |-> tagNo, rsize |-> 0, racc |-> << >>]]
              IN IF c = 0 THEN w1 ELSE CallHook(w1, w.defs[c]._startCallback, "onBegin", c, f.a)
         [] rx.rstate = "AwaitingHeader" /\ f.t = "header" ->
              LET w1 == [w EXCEPT !.chan.rx.rstate = "AwaitingBody", !.chan.rx.rsize = f.a]
                  w2 == IF d = 0 THEN w1
                        ELSE CallHook(CallHook(w1, w.defs[d]._sizeCallback, "onSize", d, f.a),
                                      w.defs[d]._headerCallback, "onHeaders", d, f.a)
              IN IF f.a = 0 THEN Reassembler_complete(w2) ELSE w2
         [] rx.rstate = "AwaitingBody" /\ f.t = "body" /\ SumSeq(rx.racc) + f.a <= rx.rsize ->
              LET w1 == [w EXCEPT !.chan.rx.racc = Append(@, f.a)]
                  w2 == IF d = 0 THEN w1 ELSE CallHook(w1, w.defs[d]._dataCallback, "onData", d, f.a)
              IN IF SumSeq(rx.racc) + f.a = rx.rsize THEN Reassembler_complete(w2) ELSE w2
         [] OTHER -> ProtocolViolation(w)

ReplyFrames ==
    {"exchange.declare-ok", "queue.declare-ok", "queue.bind-ok", "basic.qos-ok",
     "basic.consume-ok", "queue.purge-ok", "operation-failed"}

ContentFrames == {"basic.deliver", "header", "body"}

\* A frame for the channel. A closed or absent channel discards it; a closing
\* channel still takes the replies to what it sent before the close.
Channel_receive(w, f) ==
    IF w.chan.state \notin {"Opening", "Ready", "Closing"} THEN w
    ELSE IF f.t = "channel.close" THEN Channel_reportError(w, "ChannelClosed")
    ELSE IF w.chan.state # "Closing" /\ (w.chan.rx.rstate # "Idle" \/ f.t \in ContentFrames)
    THEN Reassembler_frame(w, f)
    ELSE IF f.t = "channel.open-ok" THEN Channel_openOk(w)
    ELSE IF f.t = "channel.close-ok" THEN Channel_closeOk(w)
    ELSE IF f.t \in ReplyFrames THEN Channel_reply(w, f)
    ELSE IF w.chan.state = "Closing" THEN w
    ELSE IF f.t = "basic.cancel" THEN Channel_cancel(w, f.a)
    ELSE ProtocolViolation(w)

\* ------------------------------------------------------------ Connection
ConnectionFrames == {"connection.start", "connection.tune", "connection.open-ok"}

\* The Connection constructor emits the protocol header and awaits
\* connection.start.
Connection_new(w) ==
    Send([w EXCEPT !.conn = [NoConnection EXCEPT !.state = "Connecting",
                                               !.await = "connection.start"]],
         Frame("protocol-header", 0))

\* A feed that lets an unexpected handshake frame pass.
Connection_receive_Lenient(w, f) ==
    IF w.conn.state \notin {"Connecting", "Negotiating", "Open"} THEN w
    ELSE IF w.conn.state # "Open"
    THEN IF f.t = "connection.open-ok"
         THEN [w EXCEPT !.conn.state = "Open", !.conn.await = "none",
                        !.conn.outq = << >>, !.sink = @ \o w.conn.outq]
         ELSE w
    ELSE IF f.t = "heartbeat" THEN w
    ELSE Channel_receive(w, f)

\* Connection.feed on one complete frame (design 4.2): the handshake in its
\* fixed order, then dispatch to the channel. A failed, closing or closed
\* connection processes nothing.
Connection_receive(w, f) ==
    IF w.conn.state \notin {"Connecting", "Negotiating", "Open"} THEN w
    ELSE IF f.t = "malformed" THEN ProtocolViolation(w)
    ELSE IF w.conn.state # "Open"
    THEN IF f.t # w.conn.await THEN ProtocolViolation(w)
         ELSE IF f.t = "connection.start"
         THEN Send([w EXCEPT !.conn.state = "Negotiating", !.conn.await = "connection.tune"],
                   Frame("connection.start-ok", 0))
         ELSE IF f.t = "connection.tune"
         THEN Send(Send([w EXCEPT !.conn.await = "connection.open-ok"],
                        Frame("connection.tune-ok", 0)),
                   Frame("connection.open", 0))
         ELSE [w EXCEPT !.conn.state = "Open", !.conn.await = "none",
                        !.conn.outq = << >>, !.sink = @ \o w.conn.outq]
    ELSE IF f.t = "heartbeat" THEN w
    ELSE IF f.t \in ConnectionFrames THEN ProtocolViolation(w)
    ELSE Channel_receive(w, f)

\* Connection.close(): connection.close is sent and the connection is
\* Closing; its channel stops being usable with it. Completion, and with it
\* the fate of what is still pending, is signalled by the transport, outside
\* the engine (design 4.2).
Connection_close(w) ==
    LET w1 == Send(w, Frame("connection.close", 0))
        w2 == [w1 EXCEPT !.conn.state = "Closing"]
    IN IF w.chan.state \in {"Opening", "Ready", "Closing"}
       THEN [w2 EXCEPT !.chan.state = "Closed", !.chan.consumers = {},
                       !.chan.rx = IdleReassembler]
       ELSE w2

\* Connection.heartbeat(): sends one heartbeat frame.
Connection_heartbeat(w) ==
    IF w.conn.state = "Open" THEN Send(w, Frame("heartbeat", 0)) ELSE w


\* -------------------------------------------------- wrapper entry points
\* QRabbitmqMgr::CreateMqChannel
CreateMqChannel(w) ==
    IF w.m_role = MqNone
    THEN Return([w EXCEPT !.m_errMessag = "Create Channel Failed: MqRole is None"], FALSE)
    ELSE LET w1 == CloseMqChannel(w)
             w2 == [w1 EXCEPT !.m_channel = TRUE,
                              !.chan = [NoChannel EXCEPT !.state = "Opening",
                                                         !.readyCb = "ChannelOkCb",
                                                         !.errorCb = "ChannelErrCb"]]
         IN Return(Send(w2, Frame("channel.open", 0)), TRUE)

\* QRabbitmqMgr::StartMqInstance; connected is what QTcpClient::NewConnect
\* returned.
StartMqInstance(w, connected) ==
    IF ~connected
    THEN Return([w EXCEPT !.m_errMessag = "Connect MqSever Failed"], FALSE)
    ELSE CreateMqChannel(Connection_new([w EXCEPT !.m_connection = TRUE]))

\* PublishMsg with the publish queued like a request that awaits a reply.
PublishMsg_Enqueued(w) ==
    IF ~w.m_channel \/ ~ChanUsable(w) THEN Return(w, TRUE)
    ELSE Return(Send([w EXCEPT !.defs = Append(@, NewDeferredRec("publish", FALSE)),
                               !.chan.pending = Append(@, Len(w.defs) + 1)],
                     Frame("basic.publish", 0)), TRUE)

\* QRabbitmqMgr::PublishMsg
PublishMsg(w) ==
    IF MqPublisher \notin w.m_role
    THEN Return([w EXCEPT !.m_errMessag = "Publish Messsage: MqRole is not Publisher"], FALSE)
    ELSE IF ~w.m_channel
    THEN Return([w EXCEPT !.m_errMessag = "Publish Messsage: channelPub is null"], FALSE)
    ELSE Return(Channel_publish(w), TRUE)

\* QRabbitmqMgr::CloseMqConnection
CloseMqConnection(w) ==
    IF w.m_connection /\ ConnUsable(w) THEN Return(Connection_close(w), TRUE)
    ELSE Return(w, TRUE)

\* ReleaseMqInstance closing the connection before the channel.
ReleaseMqInstance_ConnectionFirst(w) ==
    LET w1 == CloseMqChannel(CloseMqConnection(w)) IN
    IF w1.m_heartbeatTimer # "null" THEN [w1 EXCEPT !.m_heartbeatTimer = "stopped"] ELSE w1

\* QRabbitmqMgr::ReleaseMqInstance
ReleaseMqInstance(w) ==
    LET w1 == CloseMqConnection(CloseMqChannel(w)) IN
    IF w1.m_heartbeatTimer # "null" THEN [w1 EXCEPT !.m_heartbeatTimer = "stopped"] ELSE w1

\* SetQosValue without the onError registration.
SetQosValue_NoErrorCb(w) ==
    IF ~w.m_channel THEN Crash(w) ELSE Return(Channel_request(w, "setQos"), TRUE)

\* QRabbitmqMgr::SetQosValue
SetQosValue(w) ==
    IF ~w.m_channel THEN Crash(w)
    ELSE LET w1 == Channel_request(w, "setQos")
         IN Return(Deferred_onError(w1, Len(w1.defs), "SetQosValueErrCb"), TRUE)

\* An aggregate registration that drops the per-chunk hook.
onReceived_Exclusive(w, d, cb) ==
    [w EXCEPT !.defs[d]._messageCallback = cb, !.defs[d]._dataCallback = NoCb]

\* DeferredConsumer::onReceived / onMessage: store the handler.
onReceived(w, d, cb) == [w EXCEPT !.defs[d]._messageCallback = cb]

\* QRabbitmqMgr::StartConsumeMsg
StartConsumeMsg(w) ==
    IF MqConsumer \notin w.m_role
    THEN Return([w EXCEPT !.m_errMessag = "Consume Data Failed: MqRole is not Consumer"], FALSE)
    ELSE IF ~w.m_channel
    THEN Return([w EXCEPT !.m_errMessag = "Consume Data Failed: channel is null"], FALSE)
    ELSE LET w1 == Channel_request(w, "consume")
             d == Len(w1.defs)
         IN Return(Deferred_onError(onReceived(w1, d, "OnConsumeRecved"), d, "ConsumeErrorCb"), TRUE)

\* QRabbitmqMgr::PurgeMsgQueue
PurgeMsgQueue(w) ==
    IF w.m_channel /\ ChanUsable(w) THEN Return(Channel_request(w, "purgeQueue"), TRUE)
    ELSE Return(w, TRUE)

\* QRabbitmqMgr::OnStartHeartbeatTimer: a running timer is left alone,
\* otherwise a new one is created and started.
OnStartHeartbeatTimer(w) ==
    IF w.m_heartbeatTimer = "active" THEN w ELSE [w EXCEPT !.m_heartbeatTimer = "active"]

\* The timeout lambda of the heartbeat timer.
HeartbeatTimeout(w) == IF ~w.m_connection THEN w ELSE Connection_heartbeat(w)

\* OnTcpErrHandle that leaves the signal to OnStatusChange.
OnTcpErrHandle_SingleEmit(w) ==
    ReleaseMqInstance(OnStatusChange([w EXCEPT !.m_errMessag = "socket error"], FALSE))

\* QRabbitmqMgr::OnTcpErrHandle
OnTcpErrHandle(w) ==
    LET w1 == [w EXCEPT !.m_errMessag = "socket error", !.sigMqConnectError = @ + 1]
    IN ReleaseMqInstance(OnStatusChange(w1, FALSE))

\* ---------------------------------------------------------------- actions
Tags == 1 .. MaxTags

\* The frames a server can send.
InFrames ==
    {Frame(t, 0) : t \in {"connection.start", "connection.tune", "connection.open-ok",
                          "heartbeat", "malformed", "channel.open-ok", "channel.close",
                          "channel.close-ok", "exchange.declare-ok", "queue.declare-ok",
                          "queue.bind-ok", "basic.qos-ok", "queue.purge-ok",
                          "operation-failed"}}
    \cup {Frame(t, a) : t \in {"basic.consume-ok", "basic.deliver", "basic.cancel"}, a \in Tags}
    \cup {Frame("header", a) : a \in 0 .. MaxBody}
    \cup {Frame("body", a) : a \in 1 .. MaxBody}

\* Consumer tags the server has handed out so far; it never names one twice.
UsedTags == {defs[d].tag : d \in 1 .. Len(defs)}

Bounded(w) == Len(w.defs) <= MaxDeferreds

Step(w) == ~crashed /\ ~tcp.spin /\ Bounded(w) /\ Commit(w)

\* The application calls a wrapper method.
CallOn(w) == [w EXCEPT !.nCalls = @ + 1]

Call == CallOn(World)

DoStartMqInstance ==
    /\ ~m_connection
    /\ \E connected \in BOOLEAN : Step(StartMqInstance(World, connected))

\* Connection.feed applied to one complete frame. A connection that is
\* failed, closing or closed takes nothing in.
ConnLive(w) == w.conn.state \in {"Connecting", "Negotiating", "Open"}

Fed(w, f) ==
    IF ConnLive(w) THEN Connection_receive([w EXCEPT !.nFed = @ + 1], f) ELSE w

\* The transport hands the connection one complete frame.
Feed ==
    /\ m_connection
    /\ nFed < MaxFrames
    /\ \E f \in InFrames :
          /\ f.t = "basic.consume-ok" => f.a \notin UsedTags
          /\ Step(Fed(World, f))

DoPublishMsg == nCalls < MaxCalls /\ Step(PublishMsg(Call))

DoSetQosValue == nCalls < MaxCalls /\ Step(SetQosValue(Call))

DoStartConsumeMsg == nCalls < MaxCalls /\ Step(StartConsumeMsg(Call))

DoBindQueueExchange == nCalls < MaxCalls /\ Step(BindQueueExchange(Call))

DoPurgeMsgQueue == nCalls < MaxCalls /\ Step(PurgeMsgQueue(Call))

DoReleaseMqInstance == nCalls < MaxCalls /\ Step(ReleaseMqInstance(Call))

DoOnTcpErrHandle == m_connection /\ nCalls < MaxCalls /\ Step(OnTcpErrHandle(Call))

GoodInfo == [exchangeName |-> "ex", exchangeType |-> "direct", queueName |-> "q"]

InitWorld ==
    [ m_role |-> {MqPublisher, MqConsumer}, m_mqConnErrIndex |-> 0, m_errMessag |-> "",
      m_channel |-> FALSE, m_connection |-> FALSE, m_heartbeatTimer |-> "null",
      m_mqInfo |-> GoodInfo, sigMqConnectError |-> 0, sigRecvedDataReady |-> << >>,
      conn |-> NoConnection, chan |-> NoChannel, defs |-> << >>, sink |-> << >>,
      trace |-> << >>, nFed |-> 0, nCalls |-> 0, ret |-> TRUE, crashed |-> FALSE,
      tcp |-> NoTcp, thr |-> NoThreads ]

InitFrom(w) ==
    /\ m_role = w.m_role
    /\ m_mqConnErrIndex = w.m_mqConnErrIndex
    /\ m_errMessag = w.m_errMessag
    /\ m_channel = w.m_channel
    /\ m_connection = w.m_connection
    /\ m_heartbeatTimer = w.m_heartbeatTimer
    /\ m_mqInfo = w.m_mqInfo
    /\ sigMqConnectError = w.sigMqConnectError
    /\ sigRecvedDataReady = w.sigRecvedDataReady
    /\ conn = w.conn
    /\ chan = w.chan
    /\ defs = w.defs
    /\ sink = w.sink
    /\ trace = w.trace
    /\ nFed = w.nFed
    /\ nCalls = w.nCalls
    /\ ret = w.ret
    /\ crashed = w.crashed
    /\ tcp = w.tcp
    /\ thr = w.thr

\* The state after construction of QRabbitmqMgr (publisher and consumer).
Init == InitFrom(InitWorld)

Next ==
    \/ DoStartMqInstance
    \/ Feed
    \/ DoPublishMsg
    \/ DoSetQosValue
    \/ DoStartConsumeMsg
    \/ DoPurgeMsgQueue
    \/ DoBindQueueExchange
    \/ DoReleaseMqInstance
    \/ DoOnTcpErrHandle

Spec == Init /\ [][Next]_vars




\* -------------------------------- the wrapper under any configuration
\* The configurations the wrapper is constructed with: a good one, and one
\* with each of queue name, exchange name and exchange type unusable.
Infos ==
    { GoodInfo,
      [GoodInfo EXCEPT !.queueName = ""],
      [GoodInfo EXCEPT !.exchangeName = ""],
      [GoodInfo EXCEPT !.exchangeType = "bogus"] }

InitConfig == \E info \in Infos : InitFrom([InitWorld EXCEPT !.m_mqInfo = info])

SpecConfig == InitConfig /\ [][Next]_vars

\* ------------------------------------------- DeferredConsumer, as an API
\* The registration methods of DeferredConsumer. Each stores the handler in
\* its slot and returns the consumer for chaining.
onSuccess_Consume(w, d, cb) == [w EXCEPT !.defs[d]._consumeCallback = cb]

onSuccess_Plain(w, d, cb) == Deferred_onSuccess(w, d, cb)

onMessage(w, d, cb) == [w EXCEPT !.defs[d]._messageCallback = cb]

onBegin(w, d, cb) == [w EXCEPT !.defs[d]._startCallback = cb]

onStart(w, d, cb) == [w EXCEPT !.defs[d]._startCallback = cb]

onSize(w, d, cb) == [w EXCEPT !.defs[d]._sizeCallback = cb]

onHeaders(w, d, cb) == [w EXCEPT !.defs[d]._headerCallback = cb]

onData(w, d, cb) == [w EXCEPT !.defs[d]._dataCallback = cb]

\* A registration that stores the completion handler in the slot of the
\* per-chunk hook.
onComplete_AsData(w, d, cb) == [w EXCEPT !.defs[d]._dataCallback = cb]

onComplete(w, d, cb) == [w EXCEPT !.defs[d]._deliveredCallback = cb]

onDelivered(w, d, cb) == [w EXCEPT !.defs[d]._deliveredCallback = cb]

onCancelled(w, d, cb) == [w EXCEPT !.defs[d]._cancelCallback = cb]

\* The registration methods an application may call on a consumer, by name.
Hooks ==
    {"onSuccess(tag)", "onSuccess", "onError", "onReceived", "onMessage", "onBegin",
     "onStart", "onSize", "onHeaders", "onData", "onComplete", "onDelivered",
     "onCancelled"}

\* The application's handler for a registration method.
AppCb(h) == "app." \o h

\* An application calls registration method h on consumer d.
Register(w, d, h) ==
    CASE h = "onSuccess(tag)" -> onSuccess_Consume(w, d, AppCb(h))
      [] h = "onSuccess" -> onSuccess_Plain(w, d, AppCb(h))
      [] h = "onError" -> Deferred_onError(w, d, AppCb(h))
      [] h = "onReceived" -> onReceived(w, d, AppCb(h))
      [] h = "onMessage" -> onMessage(w, d, AppCb(h))
      [] h = "onBegin" -> onBegin(w, d, AppCb(h))
      [] h = "onStart" -> onStart(w, d, AppCb(h))
      [] h = "onSize" -> onSize(w, d, AppCb(h))
      [] h = "onHeaders" -> onHeaders(w, d, AppCb(h))
      [] h = "onData" -> onData(w, d, AppCb(h))
      [] h = "onComplete" -> onComplete(w, d, AppCb(h))
      [] h = "onDelivered" -> onDelivered(w, d, AppCb(h))
      [] h = "onCancelled" -> onCancelled(w, d, AppCb(h))

RECURSIVE RegisterAll(_, _, _)
RegisterAll(w, d, hs) ==
    IF hs = << >> THEN w ELSE RegisterAll(Register(w, d, Head(hs)), d, Tail(hs))

\* channel.consume(queue) followed by a chain of registrations.
Consume(w, hs) ==
    LET w1 == Channel_request(w, "consume") IN RegisterAll(w1, Len(w1.defs), hs)

\* The chains an application registers with the consume call: nothing, the
\* aggregate handler only, the granular hooks only, or everything.
Chains ==
    { << >>,
      <<"onReceived", "onError">>,
      <<"onBegin", "onHeaders", "onData", "onComplete", "onCancelled">>,
      <<"onSuccess(tag)", "onSuccess", "onBegin", "onSize", "onHeaders", "onData",
        "onComplete", "onReceived", "onCancelled", "onError">> }

\* ----------------------------------------- second specification: consumers
\* The frames that bring the wrapper from construction to a ready channel
\* with its exchange and queue declared and bound.
ReadyFrames ==
    << Frame("connection.start", 0), Frame("connection.tune", 0),
       Frame("connection.open-ok", 0), Frame("channel.open-ok", 0),
       Frame("exchange.declare-ok", 0), Frame("queue.declare-ok", 0),
       Frame("queue.bind-ok", 0) >>

RECURSIVE FeedAll(_, _)
FeedAll(w, fs) == IF fs = << >> THEN w ELSE FeedAll(Fed(w, Head(fs)), Tail(fs))

ReadyWorld == FeedAll(StartMqInstance(InitWorld, TRUE), ReadyFrames)

InitConsumer == InitFrom(ReadyWorld)

Consumers == {d \in 1 .. Len(defs) : defs[d].kind = "consume"}

\* The number of registrations made after the consume call returned.
nLate == nCalls

DoConsume ==
    /\ Cardinality(Consumers) < MaxConsumers
    /\ \E hs \in Chains : Step(Consume(World, hs))

DoRegister ==
    /\ nLate < MaxLate
    /\ \E d \in Consumers, h \in Hooks : Step(Register(Call, d, h))

FeedConsumer ==
    /\ nFed < Len(ReadyFrames) + MaxDeliveryFrames
    /\ \E f \in InFrames :
          /\ f.t = "basic.consume-ok" => f.a \notin UsedTags
          /\ f.t \notin ConnectionFrames
          /\ Step(Fed(World, f))

NextConsumer ==
    \/ DoConsume
    \/ DoRegister
    \/ FeedConsumer

SpecConsumer == InitConsumer /\ [][NextConsumer]_vars


\* --------------------------------------------------- frames on the wire
\* One byte of the wire: its role in the frame, and the value it carries.
Byte(k, t, a) == [k |-> k, t |-> t, a |-> a]

\* The payload of a frame: a body frame carries its body, the others carry
\* their argument in the header.
PayLen(f) == IF f.t = "body" THEN f.a ELSE 0

\* encode: a header of HdrLen bytes (kind, argument), the payload, and the
\* frame-end octet.
Encode(f) ==
    << Byte("type", f.t, 0), Byte("arg", "", f.a) >>
    \o [i \in 1 .. PayLen(f) |-> Byte("pay", "", i)]
    \o << Byte("end", "", 0) >>

RECURSIVE EncodeAll(_)
EncodeAll(fs) == IF fs = << >> THEN << >> ELSE Encode(Head(fs)) \o EncodeAll(Tail(fs))

\* The header at the start of a buffer of at least HdrLen bytes is a header.
HeaderOk(buf) == buf[1].k = "type" /\ buf[2].k = "arg"

HeaderFrame(buf) == Frame(buf[1].t, buf[2].a)

FrameLen(f) == HdrLen + PayLen(f) + 1

\* decode of one complete frame at the start of the buffer: the frame, or a
\* malformed one when payload or frame-end octet are not what they must be.
Decode(buf) ==
    LET f == HeaderFrame(buf)
        n == FrameLen(f)
    IN IF /\ \A i \in 1 .. PayLen(f) : buf[HdrLen + i] = Byte("pay", "", i)
          /\ buf[n] = Byte("end", "", 0)
       THEN f
       ELSE Frame("malformed", 0)

\* Connection.parse(buffer, size) (design 4.2, feed): decodes as many
\* complete frames as the buffer holds, dispatches each, and returns the
\* bytes consumed; a partial frame is not consumed, and expected() then
\* reports what that frame needs. A connection that is no longer live
\* processes no further bytes: it consumes nothing, and a malformed frame is
\* not consumed either.
RECURSIVE Connection_parse(_, _, _)
Connection_parse(w, buf, consumed) ==
    IF ~ConnLive(w) THEN [w |-> w, n |-> consumed]
    ELSE IF Len(buf) < HdrLen
    THEN [w |-> [w EXCEPT !.conn.expected = HdrLen], n |-> consumed]
    ELSE IF ~HeaderOk(buf)
    THEN [w |-> Fed(w, Frame("malformed", 0)), n |-> consumed]
    ELSE LET total == FrameLen(HeaderFrame(buf)) IN
         IF Len(buf) < total
         THEN [w |-> [w EXCEPT !.conn.expected = total], n |-> consumed]
         ELSE IF Decode(buf).t = "malformed"
         THEN [w |-> Fed(w, Frame("malformed", 0)), n |-> consumed]
         ELSE Connection_parse(Fed([w EXCEPT !.conn.expected = HdrLen], Decode(buf)),
                               SubSeq(buf, total + 1, Len(buf)), consumed + total)

\* Connection.expected()
Connection_expected(w) == w.conn.expected

\* QByteArray::mid(pos, len): at most len bytes from position pos.
Mid(msg, pos, len) ==
    SubSeq(msg, pos + 1, IF pos + len < Len(msg) THEN pos + len ELSE Len(msg))

\* The loop of QRabbitmqMgr::OnParseTcpMessage. An iteration that consumes
\* nothing and leaves the connection as it was, expected() included, is
\* repeated for ever: the slot does not return (spin).
RECURSIVE ParseLoop(_, _, _)
ParseLoop(w, msg, parsed_bytes) ==
    LET expected_bytes == Connection_expected(w) IN
    IF Len(msg) - parsed_bytes >= expected_bytes
    THEN LET tmpBUf == Mid(msg, parsed_bytes, parsed_bytes + expected_bytes)
         IN CHOOSE end \in
               { IF r.n = 0 /\ r.w = w THEN [w EXCEPT !.tcp.spin = TRUE]
                 ELSE ParseLoop(r.w, msg, parsed_bytes + r.n) :
                 r \in {Connection_parse(w, tmpBUf, 0)} } : TRUE
    ELSE w

\* QRabbitmqMgr::OnParseTcpMessage(msg): what the loop leaves unparsed is
\* not kept.
OnParseTcpMessage(w, msg) ==
    IF ~w.m_connection \/ ~ConnUsable(w) THEN w ELSE ParseLoop(w, msg, 0)

\* ------------------------------------- third specification: the byte feed
\* The wrapper with its channel set up and its consumer started.
ParseWorld == StartConsumeMsg(CallOn(ReadyWorld))

\* The frames the server may send to it.
ParseFrames ==
    { Frame("basic.consume-ok", 1), Frame("basic.deliver", 1), Frame("header", 1),
      Frame("body", 1), Frame("heartbeat", 0), Frame("basic.cancel", 1) }

RECURSIVE Streams(_)
Streams(n) ==
    IF n = 0 THEN {<< >>}
    ELSE LET S == Streams(n - 1) IN S \cup {Append(fs, f) : fs \in S, f \in ParseFrames}

InitParse ==
    \E fs \in Streams(MaxStream) :
        InitFrom([ParseWorld EXCEPT !.tcp = [NoTcp EXCEPT !.stream = EncodeAll(fs)]])

\* The transport reads the next k bytes and signals them to the wrapper.
ReadyRead ==
    /\ tcp.pos < Len(tcp.stream)
    /\ \E k \in 1 .. Len(tcp.stream) - tcp.pos :
          Step(OnParseTcpMessage([World EXCEPT !.tcp.pos = @ + k],
                                 SubSeq(tcp.stream, tcp.pos + 1, tcp.pos + k)))

NextParse == ReadyRead

SpecParse == InitParse /\ [][NextParse]_vars


\* ------------------------------------ fourth specification: two threads
\* A publisher thread calls PublishMsg while the event thread runs the
\* slots (OnParseTcpMessage with the callbacks it triggers, PurgeMsgQueue).
\* A method is entered in one step and takes effect and returns in another;
\* while a thread stands in between it is inside the Connection/Channel.

\* PublishMsg up to the call of m_channel->publish: the role and null checks
\* pass and QMutexLocker takes m_channelMutex.
PubBegin ==
    /\ thr.pub = "idle" /\ thr.mutex = "free" /\ nCalls < MaxCalls
    /\ MqPublisher \in m_role /\ m_channel
    /\ Step([World EXCEPT !.thr.pub = "publish", !.thr.mutex = "pub"])

\* m_channel->publish and the return of PublishMsg; the locker releases.
PubEnd ==
    /\ thr.pub = "publish"
    /\ Step(PublishMsg([Call EXCEPT !.thr.pub = "idle", !.thr.mutex = "free"]))

\* OnParseTcpMessage up to the call of m_connection->parse: the guard passes;
\* no mutex is taken.
ParseBegin ==
    /\ thr.evt = "idle" /\ nFed < Len(ReadyFrames) + MaxDeliveryFrames
    /\ m_connection /\ ConnUsable(World)
    /\ Step([World EXCEPT !.thr.evt = "parse"])

\* m_connection->parse on the bytes of one frame, with the callbacks it
\* invokes (OnConsumeRecved and its ack among them). An error callback ends
\* in CloseMqChannel, which waits for m_channelMutex.
ParseEnd ==
    /\ thr.evt = "parse"
    /\ \E f \in ParseFrames :
          /\ f.t = "basic.consume-ok" => f.a \notin UsedTags
          /\ \E w \in {OnParseTcpMessage([World EXCEPT !.thr.evt = "idle"], Encode(f))} :
                /\ thr.mutex = "free" \/ w.m_mqConnErrIndex = m_mqConnErrIndex
                /\ Step(w)

\* PurgeMsgQueue up to the call of m_channel->purgeQueue: QMutexLocker takes
\* m_channelMutex.
PurgeBegin ==
    /\ thr.evt = "idle" /\ thr.mutex = "free" /\ nCalls < MaxCalls
    /\ Step([World EXCEPT !.thr.evt = "purge", !.thr.mutex = "evt"])

PurgeEnd ==
    /\ thr.evt = "purge"
    /\ Step(PurgeMsgQueue([Call EXCEPT !.thr.evt = "idle", !.thr.mutex = "free"]))

InitThreads == InitFrom(ParseWorld)

NextThreads ==
    \/ PubBegin
    \/ PubEnd
    \/ ParseBegin
    \/ ParseEnd
    \/ PurgeBegin
    \/ PurgeEnd

SpecThreads == InitThreads /\ [][NextThreads]_vars

\* ================================================================= claims
\* The callback and resolution events a step added to the trace.
NewEvents == SubSeq(trace', Len(trace) + 1, Len(trace'))

EventsOf(evs, kind) == SelectSeq(evs, LAMBDA e : e.ev = kind)

RECURSIVE MapD(_)
MapD(evs) == IF evs = << >> THEN << >> ELSE <<Head(evs).d>> \o MapD(Tail(evs))

\* Positions of an error callback in a sequence of events.
PosOf(evs, cb) == {i \in 1 .. Len(evs) : evs[i].cb = cb}

ChanLive == chan.state \in {"Opening", "Ready", "Closing"}

\* The step is the feed of frame f to a connection that takes it in.
IsFeed(f) == nFed' = nFed + 1 /\ World' = Fed(World, f)

ServerClose == conn.state = "Open" /\ ChanLive /\ IsFeed(Frame("channel.close", 0))

\* C1: when channel.close arrives from the server with Deferreds pending,
\* every pending Deferred fails with ChannelClosed, the failures (and the
\* error callbacks of the Deferreds that have one) come in the order the
\* operations were issued - the declareQueue of a BindQueueExchange before
\* the bindQueue of the same call -
\* nothing stays pending, and the channel is not usable when the feed returns.
C1_ChannelCloseFailsPendingInOrder ==
    [][ServerClose =>
          /\ \A i \in 1 .. Len(chan.pending) :
                /\ defs'[chan.pending[i]].st = "Failed"
                /\ defs'[chan.pending[i]].reason = "ChannelClosed"
          /\ MapD(EventsOf(NewEvents, "failed")) = chan.pending
          /\ MapD(SelectSeq(EventsOf(NewEvents, "onError"), LAMBDA e : e.d # 0))
               = SelectSeq(chan.pending, LAMBDA d : defs[d]._errorCallback # NoCb)
          /\ \A i \in PosOf(NewEvents, "CreatMqQueueErrCb"), j \in PosOf(NewEvents, "BindQueueErrCb") :
                (NewEvents[i].d - NewEvents[j].d) \in {-1, 1} => i < j
          /\ chan'.pending = << >>
          /\ \A d \in 1 .. Len(defs') : defs'[d].st # "Pending"
          /\ ~ChanUsable(World')
    ]_vars

\* C1 witness: declareQueue and bindQueue, pending together, have both failed
\* with ChannelClosed and their error callbacks have run.
C1_Witness ==
    \E d1, d2 \in 1 .. Len(defs) :
        /\ defs[d1].kind = "declareQueue" /\ defs[d2].kind = "bindQueue"
        /\ defs[d1].st = "Failed" /\ defs[d1].reason = "ChannelClosed"
        /\ defs[d2].st = "Failed" /\ defs[d2].reason = "ChannelClosed"
        /\ PosOf(trace, "CreatMqQueueErrCb") # {} /\ PosOf(trace, "BindQueueErrCb") # {}
        /\ chan.state = "Closed"


\* ------------------------------------------------------------------- C2
ResolutionEvents(evs) == SelectSeq(evs, LAMBDA e : e.ev \in {"failed", "succeeded"})

\* The frame is the reply the oldest pending Deferred awaits (or its
\* OperationFailed), arriving when the channel takes replies.
ReplyStep(f) ==
    /\ conn.state = "Open" /\ ChanLive /\ chan.pending # << >>
    /\ chan.state = "Closing" \/ chan.rx.rstate = "Idle"
    /\ \/ f.t = "operation-failed"
       \/ f.t = ReplyFrame(defs[Head(chan.pending)].kind)
    /\ IsFeed(f)

IsPrefix(p, q) == Len(p) <= Len(q) /\ SubSeq(q, 1, Len(p)) = p

\* C2: a reply frame resolves the oldest pending Deferred and pops it, the
\* Deferreds behind it stay pending in their order; over a whole run the
\* Deferreds that were enqueued are resolved at most once and in the order
\* issued; PublishMsg creates no Deferred and leaves the pending queue alone.
C2_RepliesResolveOldestFirst ==
    [][/\ \A f \in InFrames : ReplyStep(f) =>
             LET d == Head(chan.pending) IN
             /\ defs'[d].st = IF f.t = "operation-failed" THEN "Failed" ELSE "Succeeded"
             /\ MapD(ResolutionEvents(NewEvents)) = <<d>>
             /\ IsPrefix(Tail(chan.pending), chan'.pending)
             /\ \A i \in 1 .. Len(chan'.pending) : defs'[chan'.pending[i]].st = "Pending"
       /\ (nCalls < MaxCalls /\ World' = PublishMsg(Call)) =>
             (defs' = defs /\ chan'.pending = chan.pending)
       /\ LET r == MapD(ResolutionEvents(trace'))
          IN \A i, j \in 1 .. Len(r) : i < j => r[i] < r[j]
    ]_vars

\* C2 witness: two requests issued together were answered one after the
\* other, and a publish went to the sink with a request still pending.
C2_Witness ==
    /\ \E d \in 1 .. Len(defs) :
          /\ d + 1 <= Len(defs)
          /\ defs[d].st = "Succeeded" /\ defs[d + 1].st = "Succeeded"
    /\ \E i \in 1 .. Len(sink) : sink[i].t = "basic.publish"
    /\ chan.pending # << >>

\* ------------------------------------------------------------------- C3
\* The invocations of one handler among a sequence of events.
HandlerCalls(evs, cb) == SelectSeq(evs, LAMBDA e : e.cb = cb)

\* The step is the application's call of registration method h on consumer d.
RegisterStep(d, h) == nCalls' = nCalls + 1 /\ World' = Register(Call, d, h)

\* The registrations that are replayed, and the outcome each one waits for.
ReplayedHooks == {"onSuccess(tag)", "onSuccess", "onError"}

OutcomeOf(h) == IF h = "onError" THEN "Failed" ELSE "Succeeded"

\* C3: registering onSuccess(consumer-tag), onSuccess or onError on a
\* consumer Deferred that already has that outcome invokes the handler
\* exactly once before the registration returns, with the stored result
\* (the consumer tag, or the failure reason).
C3_LateRegistrationReplays ==
    [][\A d \in Consumers, h \in ReplayedHooks :
          (defs[d].st = OutcomeOf(h) /\ RegisterStep(d, h)) =>
             LET calls == HandlerCalls(NewEvents, AppCb(h)) IN
             /\ Len(calls) = 1
             /\ calls[1].d = d
             /\ h = "onSuccess(tag)" => calls[1].a = defs[d].tag
             /\ h = "onError" => calls[1].a = defs[d].reason
    ]_vars

\* ------------------------------------------------------------------- C4
CompleteCbs == {AppCb("onComplete"), AppCb("onDelivered")}

AggregateCbs == {AppCb("onReceived"), AppCb("onMessage")}

\* The frame is the body frame that brings the accumulated length to the
\* declared size.
LastBodyFrame(f) ==
    /\ chan.rx.rstate = "AwaitingBody" /\ f.t = "body"
    /\ SumSeq(chan.rx.racc) + f.a = chan.rx.rsize

\* The header declares an empty body: the message is complete with it.
EmptyMessage(f) == chan.rx.rstate = "AwaitingHeader" /\ f.t = "header" /\ f.a = 0

\* C4: the handler registered through onComplete/onDelivered and the one
\* registered through onReceived/onMessage are each invoked exactly once per
\* message, in the feed of the body frame that brings the accumulated length
\* to the declared size S and after that frame's onData, the aggregate one
\* with a body of length S; while less than S has accumulated, and in any
\* step that is not the feed of a frame, neither is invoked.
C4_CompleteOnceAtDeclaredSize ==
    [][/\ \A f \in InFrames :
            (/\ conn.state = "Open" /\ ChanUsable(World)
             /\ chan.rx.rstate # "Idle" /\ chan.rx.rcons # 0
             /\ IsFeed(f)) =>
               LET d == chan.rx.rcons
                   done == HandlerCalls(NewEvents, defs[d]._deliveredCallback)
                   aggr == HandlerCalls(NewEvents, defs[d]._messageCallback)
                   data == PosOf(NewEvents, defs[d]._dataCallback)
               IN IF LastBodyFrame(f)
                  THEN /\ defs[d]._deliveredCallback \in CompleteCbs =>
                             /\ done = <<Ev(defs[d]._deliveredCallback, "onComplete", d, chan.rx.rdtag)>>
                             /\ \A i \in data, j \in PosOf(NewEvents, defs[d]._deliveredCallback) : i < j
                       /\ defs[d]._messageCallback \in AggregateCbs =>
                             /\ aggr = <<Ev(defs[d]._messageCallback, "onReceived", d,
                                            <<chan.rx.rsize, chan.rx.rdtag>>)>>
                             /\ \A i \in data, j \in PosOf(NewEvents, defs[d]._messageCallback) : i < j
                  ELSE EmptyMessage(f) \/
                       \A i \in 1 .. Len(NewEvents) :
                          NewEvents[i].cb \notin CompleteCbs \cup AggregateCbs
       /\ (nFed' = nFed \/ chan.rx.rstate = "Idle") =>
             \A i \in 1 .. Len(NewEvents) : NewEvents[i].cb \notin CompleteCbs \cup AggregateCbs
       /\ \A i, j \in 1 .. Len(trace') :
             (/\ i < j /\ trace'[i].cb \in CompleteCbs \cup AggregateCbs
              /\ trace'[i].cb = trace'[j].cb /\ trace'[i].d = trace'[j].d) =>
                trace'[i].a # trace'[j].a
    ]_vars

\* C4 witness: a message of declared size 2 arrived in two body frames of 1:
\* onData ran twice, then onComplete and the aggregate handler once each,
\* the latter with a body of length 2.
C4_Witness ==
    \E i, j, k, l \in 1 .. Len(trace) :
        /\ i < j /\ j < k /\ k < l
        /\ trace[i].cb = AppCb("onData") /\ trace[i].a = 1
        /\ trace[j].cb = AppCb("onData") /\ trace[j].a = 1
        /\ trace[k].cb = AppCb("onComplete")
        /\ trace[l].cb = AppCb("onReceived") /\ trace[l].a[1] = 2
        /\ chan.rx.rstate = "Idle"

\* ------------------------------------------------------------------- C5
\* The frame basic.cancel for tag t arrives on a usable, idle channel.
CancelStep(t) ==
    /\ conn.state = "Open" /\ ChanUsable(World) /\ chan.rx.rstate = "Idle"
    /\ IsFeed(Frame("basic.cancel", t))

CancelCb == AppCb("onCancelled")

\* C5: basic.cancel for the tag of an active consumer invokes the handler the
\* consumer registered through onCancelled exactly once, with that tag; no
\* error handler runs and the consumer's Deferred does not fail; over a whole
\* run the handler of one consumer runs at most once, and never in a step
\* that is not such a cancel.
C5_CancelledOnceNotAnError ==
    [][/\ \A t \in Tags :
            (ConsumerOf(World, t) # 0 /\ CancelStep(t)) =>
               LET d == ConsumerOf(World, t) IN
               /\ defs[d]._cancelCallback = CancelCb =>
                     /\ Len(NewEvents) = 1
                     /\ NewEvents[1].cb = CancelCb /\ NewEvents[1].ev = "onCancelled"
                     /\ NewEvents[1].d = d /\ NewEvents[1].a = t
               /\ \A i \in 1 .. Len(NewEvents) :
                     NewEvents[i].ev \notin {"onError", "failed"}
               /\ defs'[d].st = "Succeeded"
               /\ ChanUsable(World')
       /\ HandlerCalls(NewEvents, CancelCb) # << >> =>
             \E t \in Tags : ConsumerOf(World, t) # 0 /\ CancelStep(t)
       /\ \A i, j \in 1 .. Len(trace') :
             (trace'[i].cb = CancelCb /\ trace'[j].cb = CancelCb /\ trace'[i].d = trace'[j].d)
                => i = j
    ]_vars

\* C5 witness: the consumer was cancelled by the server, its handler ran with
\* its tag, no error handler of it ran, and a further frame was taken in
\* after the cancel.
C5_Witness ==
    \E d \in Consumers, i \in 1 .. Len(trace) :
        /\ trace[i].cb = CancelCb /\ trace[i].d = d /\ trace[i].a = defs[d].tag
        /\ defs[d].st = "Succeeded" /\ defs[d]._errorCallback # NoCb
        /\ \A j \in 1 .. Len(trace) : ~(trace[j].ev = "onError" /\ trace[j].d = d)
        /\ chan.rx.rstate = "AwaitingHeader" /\ chan.rx.rtag = defs[d].tag

\* ------------------------------------------------------------------- C6
\* The handlers of the delivery hooks.
DeliveryCbs ==
    {AppCb(h) : h \in {"onBegin", "onStart", "onSize", "onHeaders", "onData", "onComplete",
                       "onDelivered", "onReceived", "onMessage"}}

\* The frame is the consume-ok the oldest pending Deferred, a consume, awaits.
ConsumeOkStep(t) ==
    /\ conn.state = "Open" /\ ChanUsable(World) /\ chan.rx.rstate = "Idle"
    /\ chan.pending # << >> /\ defs[Head(chan.pending)].kind = "consume"
    /\ IsFeed(Frame("basic.consume-ok", t))

\* C6: the registry holds a tag exactly from its consume-ok until its
\* basic.cancel or until the channel stops being usable: every entry is a
\* consumer that succeeded under that tag on a usable channel, consume-ok
\* adds the entry, cancel removes it and nothing else changes the registry
\* of a usable channel; a delivery hook runs only for a consumer that is in
\* the registry when the frame arrives, hence never after its cancel or
\* after the channel closed, whatever deliver frames arrive later.
C6_RegistryBoundsDeliveries ==
    [][/\ \A p \in chan'.consumers :
             /\ defs'[p[2]].st = "Succeeded" /\ defs'[p[2]].tag = p[1]
             /\ ChanUsable(World')
       /\ ~ChanUsable(World') => chan'.consumers = {}
       /\ \A t \in Tags :
             /\ ConsumeOkStep(t) =>
                   chan'.consumers = chan.consumers \cup {<<t, Head(chan.pending)>>}
             /\ (ConsumerOf(World, t) # 0 /\ CancelStep(t)) =>
                   chan'.consumers = chan.consumers \ {<<t, ConsumerOf(World, t)>>}
       /\ (ChanUsable(World') /\ chan'.consumers # chan.consumers) =>
             \E t \in Tags : ConsumeOkStep(t) \/ (ConsumerOf(World, t) # 0 /\ CancelStep(t))
       /\ \A i \in 1 .. Len(NewEvents) :
             NewEvents[i].cb \in DeliveryCbs =>
                <<defs[NewEvents[i].d].tag, NewEvents[i].d>> \in chan.consumers
       /\ \A i, j \in 1 .. Len(trace') :
             (trace'[i].cb = CancelCb /\ trace'[j].cb \in DeliveryCbs /\ trace'[i].d = trace'[j].d)
                => j < i
    ]_vars

\* C6 witness: a consumer that had received a message was cancelled, and a
\* deliver frame naming its tag arrived afterwards: the registry no longer
\* holds the tag and the message in flight has no consumer.
C6_Witness ==
    \E d \in Consumers, i, j \in 1 .. Len(trace) :
        /\ i < j
        /\ trace[i].cb = AppCb("onReceived") /\ trace[i].d = d
        /\ trace[j].cb = CancelCb /\ trace[j].d = d
        /\ ConsumerOf(World, defs[d].tag) = 0
        /\ chan.rx.rstate = "AwaitingHeader" /\ chan.rx.rtag = defs[d].tag
        /\ chan.rx.rcons = 0

\* ------------------------------------------------------------------- C7
\* The callbacks invoked since the byte stream began.
Callbacks(w) == SubSeq(w.trace, Len(ParseWorld.trace) + 1, Len(w.trace))

\* The same bytes signalled as one contiguous buffer.
Contiguous == OnParseTcpMessage(ParseWorld, tcp.stream)

\* C7: once the transport has delivered all bytes of a sequence of complete
\* frames, in chunks of whatever sizes, the callbacks invoked are those the
\* same bytes invoke when they arrive as one buffer.
C7_ChunkSizeIndependent ==
    tcp.pos = Len(tcp.stream) => Callbacks(World) = Callbacks(Contiguous)

\* ------------------------------------------------------------------- C8
CallStep == nCalls' = nCalls + 1

OperationFailedStep ==
    /\ conn.state = "Open" /\ ChanUsable(World) /\ chan.pending # << >>
    /\ chan.rx.rstate = "Idle"
    /\ IsFeed(Frame("operation-failed", 0))

\* C9: an OperationFailed reply fails the oldest pending Deferred only: the
\* others stay pending and the channel is still usable when the feed returns.
C9_OperationFailedIsLocal ==
    [][OperationFailedStep =>
          /\ defs'[Head(chan.pending)].st = "Failed"
          /\ defs'[Head(chan.pending)].reason = "OperationFailed"
          /\ \A i \in 2 .. Len(chan.pending) : defs'[chan.pending[i]].st = "Pending"
          /\ ChanUsable(World')
          /\ \A i \in Len(sink) + 1 .. Len(sink') : sink'[i].t # "channel.close"
    ]_vars

\* ------------------------------------------------------------------ C10
Handshake == <<"protocol-header", "connection.start-ok", "connection.tune-ok", "connection.open">>

HandshakeSent ==
    CASE conn.state = "Connecting" -> 1
      [] conn.state = "Negotiating" /\ conn.await = "connection.tune" -> 2
      [] conn.state = "Negotiating" /\ conn.await = "connection.open-ok" -> 4
      [] OTHER -> 0

\* C10: the client's handshake frames leave in the order protocol-header,
\* start-ok, tune-ok, open, each only after the server frame it answers, and
\* nothing else leaves before connection.open-ok; usable() holds only after
\* all four were sent and open-ok was received; during the handshake a frame
\* other than the awaited one moves the connection to Failed, and the awaited
\* one moves it one step on.
C10_HandshakeOrder ==
    [][/\ m_connection' =>
            /\ \A i \in 1 .. Len(sink') : i <= 4 => sink'[i].t = Handshake[i]
            /\ conn'.state \in {"Connecting", "Negotiating"} =>
                  (Len(sink') = HandshakeSent' /\ ~ConnUsable(World'))
            /\ ConnUsable(World') => Len(sink') >= 4
       /\ \A f \in InFrames :
            (conn.state \in {"Connecting", "Negotiating"} /\ IsFeed(f)) =>
               IF f.t # conn.await THEN conn'.state = "Failed" /\ ~ConnUsable(World')
               ELSE /\ conn'.state # "Failed"
                    /\ ConnUsable(World') <=> f.t = "connection.open-ok"
                    /\ conn'.await # conn.await
    ]_vars

\* C10 witness: the handshake has completed and the connection is usable.
C10_Witness ==
    /\ ConnUsable(World)
    /\ Len(sink) >= 4 /\ \A i \in 1 .. 4 : sink[i].t = Handshake[i]
    /\ nFed = 3

\* ------------------------------------------------------------------ C11
\* The bytes of frame f with a wrong frame-end octet.
BadEnd(f) == [Encode(f) EXCEPT ![FrameLen(f)] = Byte("pay", "", 0)]

\* C11: a malformed frame moves a live connection to Failed; Failed is never
\* left; a Failed connection is not usable, a frame fed to it changes
\* nothing and invokes nothing, and so do bytes handed to OnParseTcpMessage.
\* On the wire: a frame with a bad frame-end octet followed by a good frame,
\* parsed by a usable connection, fails the connection after one frame and
\* the good frame is not dispatched.
C11_FailedIsFinal ==
    [][/\ (ConnLive(World) /\ IsFeed(Frame("malformed", 0))) =>
             (conn'.state = "Failed" /\ ~ConnUsable(World'))
       /\ conn.state = "Failed" => conn'.state = "Failed"
       /\ conn'.state = "Failed" =>
             /\ ~ConnUsable(World')
             /\ \A f \in InFrames :
                   /\ Fed(World', f) = World'
                   /\ OnParseTcpMessage(World', Encode(f)) = World'
       /\ (m_connection' /\ ConnUsable(World')) =>
             LET w2 == OnParseTcpMessage(World', BadEnd(Frame("heartbeat", 0))
                                                   \o Encode(Frame("heartbeat", 0)))
             IN w2.conn.state = "Failed" /\ w2.nFed = nFed' + 1
    ]_vars

\* C11 witness: the connection has failed on a violation with a request
\* pending, the channel's error handler has run, and frames may still arrive.
C11_Witness ==
    /\ conn.state = "Failed" /\ m_connection /\ nFed < MaxFrames
    /\ \E d \in 1 .. Len(defs) : defs[d].st = "Failed" /\ defs[d].reason = "ProtocolViolation"
    /\ \E i \in 1 .. Len(trace) : trace[i].cb = "ChannelErrCb"

\* ------------------------------------------------------------------ C12
\* The threads that stand inside the Connection/Channel.
InCore == {t \in {"pub", "evt"} : thr[t] # "idle"}

\* C12: the publisher thread and the event thread are never inside the
\* Connection/Channel at the same time.
C12_EntryPointsSerialized == Cardinality(InCore) <= 1

\* ------------------------------------------------------------------ C13
EmptyNameMsg == "ExchangeName or QueueName is empty."

\* The step runs BindQueueExchange: called by the application, or by
\* ChannelOkCb when channel.open-ok arrives.
BindQueueExchangeStep ==
    \/ nCalls < MaxCalls /\ m_channel /\ World' = BindQueueExchange(Call)
    \/ /\ conn.state = "Open" /\ chan.state = "Opening" /\ chan.rx.rstate = "Idle"
       /\ IsFeed(Frame("channel.open-ok", 0))

GranularSlots ==
    {"_startCallback", "_sizeCallback", "_headerCallback", "_dataCallback", "_deliveredCallback"}

\* The chunks handed to the per-chunk handler cb of consumer d since its
\* last message began.
RECURSIVE ChunksOf(_, _, _)
ChunksOf(evs, d, cb) ==
    IF evs = << >> THEN << >>
    ELSE LET e == evs[Len(evs)]
             front == SubSeq(evs, 1, Len(evs) - 1)
         IN IF e.d = d /\ e.ev = "onBegin" THEN << >>
            ELSE IF e.d = d /\ e.cb = cb /\ e.ev = "onData"
            THEN Append(ChunksOf(front, d, cb), e.a)
            ELSE ChunksOf(front, d, cb)

\* C14: registering the aggregate handler leaves the granular hooks as they
\* are and registering a granular hook leaves the aggregate handler as it
\* is; with both registered, the deliver frame invokes onBegin, the header
\* frame onHeaders, every body frame onData with that chunk, the last one
\* then onComplete, and the aggregate handler receives a body whose length
\* is the sum of the chunks handed to onData, which (for hooks registered
\* with the consume call) are the chunks the reassembler accumulated.
C14_GranularAndAggregateConsistent ==
    [][/\ \A d \in Consumers, h \in Hooks :
            RegisterStep(d, h) =>
               /\ h \in {"onReceived", "onMessage"} =>
                     /\ defs'[d]._messageCallback = AppCb(h)
                     /\ \A sl \in GranularSlots : defs'[d][sl] = defs[d][sl]
               /\ h \in {"onBegin", "onStart", "onSize", "onHeaders", "onData",
                         "onComplete", "onDelivered"} =>
                     defs'[d]._messageCallback = defs[d]._messageCallback
               /\ h = "onData" => defs'[d]._dataCallback = AppCb(h)
       /\ \A f \in InFrames :
            (/\ conn.state = "Open" /\ ChanUsable(World) /\ f.t \in ContentFrames
             /\ chan.rx.rstate # "Idle" \/ ConsumerOf(World, f.a) # 0
             /\ IsFeed(f) /\ conn'.state = "Open") =>
               LET d == IF chan.rx.rstate = "Idle" THEN ConsumerOf(World, f.a) ELSE chan.rx.rcons
                   fired(cb, ev, a) ==
                       cb # NoCb => \E i \in 1 .. Len(NewEvents) :
                                       /\ NewEvents[i].cb = cb /\ NewEvents[i].ev = ev
                                       /\ NewEvents[i].d = d /\ NewEvents[i].a = a
               IN d # 0 =>
                  /\ f.t = "basic.deliver" => fired(defs[d]._startCallback, "onBegin", f.a)
                  /\ f.t = "header" => fired(defs[d]._headerCallback, "onHeaders", f.a)
                  /\ f.t = "body" =>
                        /\ fired(defs[d]._dataCallback, "onData", f.a)
                        /\ Len(HandlerCalls(NewEvents, defs[d]._dataCallback)) <= 1
                        /\ (defs[d]._dataCallback # NoCb /\ nLate = 0) =>
                              ChunksOf(trace', d, defs[d]._dataCallback) = Append(chan.rx.racc, f.a)
                        /\ LastBodyFrame(f) =>
                              /\ fired(defs[d]._deliveredCallback, "onComplete", chan.rx.rdtag)
                              /\ fired(defs[d]._messageCallback, "onReceived",
                                       <<SumSeq(Append(chan.rx.racc, f.a)), chan.rx.rdtag>>)
    ]_vars

\* C14 witness: on a consumer with granular hooks and aggregate handler, a
\* message of two chunks invoked onBegin, onHeaders, onData twice,
\* onComplete and the aggregate handler with the length of both chunks.
C14_Witness ==
    /\ Len(trace) >= 6
    /\ LET n == Len(trace) IN
       /\ trace[n].cb = AppCb("onReceived") /\ trace[n - 1].cb = AppCb("onComplete")
       /\ trace[n - 2].cb = AppCb("onData") /\ trace[n - 3].cb = AppCb("onData")
       /\ trace[n - 4].cb = AppCb("onHeaders")
       /\ \E b \in 1 .. n - 5 : trace[b].cb = AppCb("onBegin") /\ trace[b].d = trace[n].d
       /\ trace[n].a[1] = trace[n - 2].a + trace[n - 3].a
       /\ defs[trace[n].d]._messageCallback # NoCb /\ defs[trace[n].d]._dataCallback # NoCb

\* ------------------------------------------------------------------ C15
\* The frame reaches the reassembler of a usable channel.
ContentStep(f) ==
    /\ conn.state = "Open" /\ ChanUsable(World) /\ f.t \in ContentFrames
    /\ IsFeed(f)

\* C15: the reassembler accumulates only in AwaitingBody, where the declared
\* size is known and more than what has accumulated; it goes from Idle to
\* AwaitingHeader on deliver, from there to AwaitingBody on a header with a
\* size above 0 and to Idle on a header with size 0, and from AwaitingBody
\* to Idle exactly on the body frame that makes the accumulated length equal
\* the declared size; a header or body frame in another state, and a body
\* frame that exceeds the declared size, fail the connection.
C15_ReassemblyInvariant ==
    [][/\ LET rx == chan'.rx IN
          /\ SumSeq(rx.racc) <= rx.rsize
          /\ rx.rstate = "AwaitingBody" => (rx.rsize > 0 /\ SumSeq(rx.racc) < rx.rsize)
          /\ rx.rstate \in {"Idle", "AwaitingHeader"} => (rx.racc = << >> /\ rx.rsize = 0)
       /\ chan'.rx.racc # chan.rx.racc =>
             \/ chan'.rx.racc = << >>
             \/ /\ chan.rx.rstate = "AwaitingBody" /\ chan'.rx.rstate = "AwaitingBody"
                /\ ContentStep(Frame("body", SumSeq(chan'.rx.racc) - SumSeq(chan.rx.racc)))
       /\ \A f \in InFrames : ContentStep(f) =>
             LET rx == chan.rx
                 st == chan'.rx.rstate
                 failed == conn'.state = "Failed" /\ st = "Idle"
             IN CASE rx.rstate = "Idle" ->
                       IF f.t = "basic.deliver" THEN st = "AwaitingHeader" /\ conn'.state = "Open"
                       ELSE failed
                  [] rx.rstate = "AwaitingHeader" ->
                       IF f.t = "header"
                       THEN /\ conn'.state = "Open"
                            /\ st = IF f.a = 0 THEN "Idle" ELSE "AwaitingBody"
                            /\ chan'.rx.rsize = IF f.a = 0 THEN 0 ELSE f.a
                       ELSE failed
                  [] rx.rstate = "AwaitingBody" ->
                       IF f.t = "body" /\ SumSeq(rx.racc) + f.a <= rx.rsize
                       THEN /\ conn'.state = "Open"
                            /\ st = "Idle" <=> SumSeq(rx.racc) + f.a = rx.rsize
                       ELSE failed
       /\ (chan.rx.rstate # "Idle" /\ chan'.rx.rstate = "Idle" /\ ChanUsable(World')) =>
             \E f \in InFrames : ContentStep(f) /\ (LastBodyFrame(f) \/ EmptyMessage(f))
    ]_vars

\* C15 witness: a deliver frame began a message for a consumer, and the next
\* frame was not its header: the connection failed with ProtocolViolation.
C15_Witness ==
    /\ conn.state = "Failed" /\ chan.rx.rstate = "Idle" /\ Len(trace) >= 2
    /\ trace[Len(trace)].cb = "ChannelErrCb"
    /\ trace[Len(trace) - 1].cb = AppCb("onBegin")

\* ------------------------------------------------------------------ C16
\* The wrapper with its consumer started, fed channel frames; the application
\* may start a second consumer or release the instance.
NextAck ==
    \/ FeedConsumer
    \/ DoStartConsumeMsg
    \/ DoReleaseMqInstance

SpecAck == InitThreads /\ [][NextAck]_vars

Acks(s) == SelectSeq(s, LAMBDA f : f.t = "basic.ack")

\* The frame completes a message for the consumer StartConsumeMsg started.
WrapperMessageStep(f) ==
    /\ conn.state = "Open" /\ ChanUsable(World) /\ IsFeed(f)
    /\ LastBodyFrame(f) \/ EmptyMessage(f)
    /\ chan.rx.rcons # 0
    /\ defs[chan.rx.rcons]._messageCallback = "OnConsumeRecved"

C17_ParseLoopTerminates == ~tcp.spin

\* ------------------------------------------------------------------ C18
\* The wrapper from its construction, with a server that answers the
\* client's handshake frames and a transport that signals every byte it
\* reads to OnParseTcpMessage.

\* What the server answers to a handshake frame of the client.
AnswerTo(t) ==
    CASE t = "protocol-header" -> <<Frame("connection.start", 0)>>
      [] t = "connection.start-ok" -> <<Frame("connection.tune", 0)>>
      [] t = "connection.open" -> <<Frame("connection.open-ok", 0)>>
      [] OTHER -> << >>

RECURSIVE Answers(_)
Answers(out) ==
    IF out = << >> THEN << >> ELSE AnswerTo(Head(out).t) \o Answers(Tail(out))

\* The server answers the handshake frames that have reached it.
ServerAnswer ==
    /\ m_connection
    /\ Len(tcp.stream) < Len(EncodeAll(Answers(sink)))
    /\ Step([World EXCEPT !.tcp.stream = EncodeAll(Answers(sink))])

NextHandshake ==
    \/ DoStartMqInstance
    \/ ServerAnswer
    \/ ReadyRead
    \/ DoPublishMsg
    \/ DoSetQosValue
    \/ DoStartConsumeMsg
    \/ DoPurgeMsgQueue
    \/ DoReleaseMqInstance

SpecHandshake ==
    Init /\ [][NextHandshake]_vars /\ WF_vars(ServerAnswer) /\ WF_vars(ReadyRead)

\* C18: with a server that answers every handshake frame and a transport
\* that hands every inbound byte to OnParseTcpMessage, a connection that has
\* been constructed eventually becomes usable.
C18_HandshakeCompletes == [](m_connection => <>ConnUsable(World))

\* ------------------------------------------------------------------ C19
\* The wrapper with its heartbeat timer: the handler asks for the timer, the
\* timer fires, the server sends frames, and the application releases the
\* instance or the socket reports an error.
MaxBeats == 1

FramesOf(fs, t) == SelectSeq(fs, LAMBDA f : f.t = t)

DoOnStartHeartbeatTimer ==
    /\ m_connection /\ m_heartbeatTimer # "active"
    /\ Step(OnStartHeartbeatTimer(World))

DoHeartbeatTimeout ==
    /\ m_heartbeatTimer = "active" /\ conn.state = "Open"
    /\ Len(FramesOf(sink, "heartbeat")) < MaxBeats
    /\ Step(HeartbeatTimeout(World))

NextShutdown ==
    \/ DoStartMqInstance
    \/ Feed
    \/ DoOnStartHeartbeatTimer
    \/ DoHeartbeatTimeout
    \/ DoSetQosValue
    \/ DoReleaseMqInstance
    \/ DoOnTcpErrHandle

SpecShutdown == Init /\ [][NextShutdown]_vars

\* The frames the step hands to the connection, in order.
NewFrames ==
    SubSeq(sink', Len(sink) + 1, Len(sink')) \o
    SubSeq(conn'.outq, Len(conn.outq) + 1, Len(conn'.outq))

\* What an orderly shutdown sends from the present state.
CloseFrames ==
    (IF m_channel /\ ChanUsable(World) THEN <<Frame("channel.close", 0)>> ELSE << >>) \o
    (IF m_connection /\ ConnUsable(World) THEN <<Frame("connection.close", 0)>> ELSE << >>)

ShutdownStep ==
    /\ nCalls < MaxCalls
    /\ World' = ReleaseMqInstance(Call) \/ (m_connection /\ World' = OnTcpErrHandle(Call))

\* C19: ReleaseMqInstance, also when OnTcpErrHandle runs it after
\* OnStatusChange(false), sends channel.close for a usable channel, then
\* connection.close for a usable connection, nothing else, and leaves the
\* heartbeat timer stopped; over any sequence of shutdowns and failures at
\* most one channel.close and at most one connection.close are ever sent,
\* the channel's before the connection's, and no heartbeat is sent by a
\* timer that has been stopped.
C19_ShutdownOrderedIdempotent ==
    [][/\ ShutdownStep =>
             /\ NewFrames = CloseFrames
             /\ m_heartbeatTimer' # "active"
             /\ ~ChanUsable(World') /\ ~ConnUsable(World')
       /\ LET out == sink' \o conn'.outq IN
          /\ Len(FramesOf(out, "channel.close")) <= 1
          /\ Len(FramesOf(out, "connection.close")) <= 1
          /\ \A i, j \in 1 .. Len(out) :
                (out[i].t = "connection.close" /\ out[j].t = "channel.close") => j < i
       /\ Len(FramesOf(sink', "heartbeat")) > Len(FramesOf(sink, "heartbeat")) =>
             m_heartbeatTimer = "active"
    ]_vars

\* C19 witness: the instance was shut down twice with the timer started;
\* one channel.close and one connection.close have been sent, in this order.
C19_Witness ==
    /\ nCalls = 2 /\ m_heartbeatTimer = "stopped"
    /\ Len(sink) >= 2
    /\ sink[Len(sink) - 1].t = "channel.close" /\ sink[Len(sink)].t = "connection.close"

\* ------------------------------------------------------------------ C20
\* The wrapper of the first specification, where the application may also
\* call CreateMqChannel.
DoCreateMqChannel == m_connection /\ nCalls < MaxCalls /\ Step(CreateMqChannel(Call))

NextSticky ==
    \/ DoStartMqInstance
    \/ Feed
    \/ DoPublishMsg
    \/ DoStartConsumeMsg
    \/ DoSetQosValue
    \/ DoBindQueueExchange
    \/ DoCreateMqChannel
    \/ DoOnTcpErrHandle

SpecSticky == Init /\ [][NextSticky]_vars

\* The number of times the step runs OnStatusChange(false): once per error
\* callback that ends in it, and once in OnTcpErrHandle.
StatusFalseCalls ==
    Cardinality({i \in 1 .. Len(NewEvents) : NewEvents[i].cb \in StatusErrCbs})
    + (IF m_connection /\ nCalls < MaxCalls /\ World' = OnTcpErrHandle(Call) THEN 1 ELSE 0)

\* The step runs OnStatusChange(true): ChannelOkCb ends with it.
StatusTrueCalled == \E i \in 1 .. Len(NewEvents) : NewEvents[i].cb = "ChannelOkCb"

\* The call left the channel, the connection and the sink as they were.
ChannelUntouched ==
    /\ chan' = chan /\ conn' = conn /\ sink' = sink /\ defs' = defs
    /\ m_channel' = m_channel

\* C20: a step that runs OnStatusChange(false) leaves the role MqNone, and
\* the role then stays MqNone; with the role MqNone PublishMsg,
\* StartConsumeMsg and CreateMqChannel return false and leave channel,
\* connection and sink as they were; m_mqConnErrIndex goes up by one for
\* every OnStatusChange(false) and goes back to 0 only in a step that runs
\* OnStatusChange(true).
C20_FailureSticky ==
    [][/\ StatusFalseCalls > 0 => m_role' = MqNone
       /\ m_role = MqNone => m_role' = MqNone
       /\ (m_role = MqNone /\ nCalls < MaxCalls) =>
             \A w \in {PublishMsg(Call), StartConsumeMsg(Call), CreateMqChannel(Call)} :
                 World' = w => (ret' = FALSE /\ ChannelUntouched)
       /\ IF StatusTrueCalled THEN m_mqConnErrIndex' = 0
          ELSE m_mqConnErrIndex' = m_mqConnErrIndex + StatusFalseCalls
    ]_vars

\* C20 witness: after a failure a wrapper method was refused for the role.
C20_Witness ==
    /\ m_role = MqNone /\ m_mqConnErrIndex >= 1 /\ ret = FALSE
    /\ m_errMessag \in {"Publish Messsage: MqRole is not Publisher",
                        "Consume Data Failed: MqRole is not Consumer",
                        "Create Channel Failed: MqRole is None"}

\* ------------------------------------------------------------------ C21
\* channel.open-ok arrives for the channel CreateMqChannel opened: its
\* onReady handler ChannelOkCb runs.
ChannelReadyStep ==
    /\ conn.state = "Open" /\ chan.state = "Opening" /\ chan.rx.rstate = "Idle"
    /\ chan.readyCb = "ChannelOkCb"
    /\ IsFeed(Frame("channel.open-ok", 0))

\* The requests BindQueueExchange makes with the configured names.
ExpectedRequests ==
    (IF m_mqInfo.exchangeName # "" /\ m_mqInfo.exchangeType \in MqExTypeMap
     THEN <<"declareExchange">> ELSE << >>) \o
    <<"declareQueue">> \o
    (IF m_mqInfo.exchangeName # "" /\ m_mqInfo.queueName # ""
     THEN <<"bindQueue">> ELSE << >>)

\* The message the last failed step of BindQueueExchange leaves.
ExpectedMessage ==
    IF m_mqInfo.exchangeName = "" \/ m_mqInfo.queueName = "" THEN EmptyNameMsg
    ELSE IF m_mqInfo.exchangeType \notin MqExTypeMap
    THEN "Create Exchange Failed, Unknow exType"
    ELSE m_errMessag

\* C21: when the channel becomes ready, BindQueueExchange requests the
\* exchange declaration, the queue declaration and the binding in this
\* order; a step that fails synchronously (empty exchange name, unknown
\* exchange type, empty name for the binding) only leaves its message and
\* the later steps are still requested; ChannelOkCb then reports status OK:
\* the error counter is 0, the role is kept and no error is signalled.
C21_ReadyDeclaresInOrder ==
    [][ChannelReadyStep =>
          LET n == Len(defs)
              k == Len(ExpectedRequests)
          IN /\ ~crashed' /\ chan'.state = "Ready"
             /\ Len(defs') = n + k
             /\ \A i \in 1 .. k :
                   /\ defs'[n + i].kind = ExpectedRequests[i]
                   /\ defs'[n + i].st = "Pending"
                   /\ sink'[Len(sink) + i] = Frame(RequestFrame(ExpectedRequests[i]), 0)
             /\ Len(sink') = Len(sink) + k
             /\ chan'.pending = chan.pending \o [i \in 1 .. k |-> n + i]
             /\ m_errMessag' = ExpectedMessage
             /\ m_mqConnErrIndex' = 0 /\ m_role' = m_role
             /\ sigMqConnectError' = sigMqConnectError
    ]_vars

\* C21 witness: with an exchange type that is not known the channel became
\* ready; the exchange step left its message, queue and binding were
\* requested all the same, and the status is OK.
C21_Witness ==
    /\ m_mqInfo.exchangeType = "bogus" /\ chan.state = "Ready"
    /\ m_errMessag = "Create Exchange Failed, Unknow exType"
    /\ Len(defs) = 2 /\ defs[1].kind = "declareQueue" /\ defs[2].kind = "bindQueue"
    /\ m_mqConnErrIndex = 0 /\ m_role # MqNone

\* ------------------------------------------------------------------ C22
\* The socket reports an error: the step is one call of OnTcpErrHandle.
TcpErrStep == m_connection /\ nCalls < MaxCalls /\ World' = OnTcpErrHandle(Call)

\* C22: one call of OnTcpErrHandle emits sigMqConnectError twice, adds one
\* to the error counter, leaves the role MqNone, records the error text,
\* and releases the instance: channel.close for a usable channel, then
\* connection.close for a usable connection, nothing else sent, neither
\* usable afterwards and the heartbeat timer not running.
C22_TcpErrorHandledOnce ==
    [][TcpErrStep =>
          /\ sigMqConnectError' = sigMqConnectError + 2
          /\ m_mqConnErrIndex' = m_mqConnErrIndex + 1
          /\ m_role' = MqNone
          /\ m_errMessag' = "socket error"
          /\ NewFrames = CloseFrames
          /\ ~ChanUsable(World') /\ ~ConnUsable(World')
          /\ m_heartbeatTimer' = IF m_heartbeatTimer = "null" THEN "null" ELSE "stopped"
          /\ NewEvents = << >>
    ]_vars

\* C22 witness: the socket reported an error while channel, connection and
\* timer were running; both closes were sent and the timer is stopped.
C22_Witness ==
    /\ m_errMessag = "socket error" /\ nCalls = 1
    /\ sigMqConnectError = 2 /\ m_mqConnErrIndex = 1 /\ m_role = MqNone
    /\ m_heartbeatTimer = "stopped" /\ conn.state = "Closing"
    /\ Len(sink) >= 2
    /\ sink[Len(sink) - 1].t = "channel.close" /\ sink[Len(sink)].t = "connection.close"

====
